---- MODULE Spec2Model ----
(***************************************************************************)
(* Model of the proxy pool and dispatch engine of the Jina proxy API:      *)
(*   src/main.py           class UltraEnhancedJinaProxyAPI                 *)
(*   src/proxy_manager.py  class ProxyManager                              *)
(*                                                                         *)
(* A proxy (a dict {"http": ..., "https": ...}) is modelled by its         *)
(* position in the seed list PROXY_LIST: the seed list of n distinct       *)
(* proxies is <<1, ..., n>>, and 0 stands for None.                        *)
(*                                                                         *)
(* UltraEnhancedJinaProxyAPI is shared by the request threads of the web   *)
(* server and by the daemon thread started at line 83; it takes no lock.   *)
(* Every read and every write of a shared attribute, list or dict is       *)
(* therefore a step of its own, and the steps of different threads         *)
(* interleave freely (the interpreter may switch threads between any two   *)
(* bytecodes).  The labels of the program counters are the source lines.   *)
(***************************************************************************)
EXTENDS Integers, Sequences, FiniteSets, TLC

\* ---------------------------------------------------------------- constants
\* self.free_proxies[:20] / self.free_proxies[20:]
FastStart == 20
\* max_retries: int = 5
MaxRetries == 5
\* perf["total"] >= 5
MinSample == 5
\* perf["success"] / perf["total"] < 0.2, i.e. success * 5 < total
FloorInverse == 5

\* ------------------------------------------------------------------- bounds
\* request threads dispatching concurrently
NumThreads == 2
\* dispatch calls (search_web / read_url) each request thread makes
MaxCalls == 1
\* dispatch calls of the single thread of the sequential specification
MaxSeqCalls == 3
\* candidates beyond the fast-start prefix in the long seed list
Extra == 1
\* length of the short seed list (all of it inside the fast-start prefix)
SmallSeed == 3
\* proxies 1..MaxLive may answer a probe; the other hosts are down
MaxLive == 1
\* length of the longest seed list of the ProxyManager
MaxPmSeed == 3
\* calls of ProxyManager methods after its construction
MaxPmOps == 8
\* calls of get_comprehensive_stats each request thread makes
MaxSnaps == 1
\* dispatch calls of the single request thread, and preemptions, of the
\* specification in which the sweep adds a proxy during a call
MaxLateCalls == 2
MaxLatePreempt == 2
\* preemptions: switches away from a thread that is neither blocked (in a
\* request, a probe or a sleep) nor finished
MaxPreempt == 1

Threads == 1..NumThreads
\* the daemon thread and the main thread, as thread identifiers
Bg == 0
Main == NumThreads + 1
None == 0

\* ------------------------------------------------------------------ helpers
Range(s) == {s[k] : k \in 1..Len(s)}

Min(a, b) == IF a < b THEN a ELSE b

\* seq[:n] and seq[n:]
Prefix(s, n) == SubSeq(s, 1, Min(n, Len(s)))
Suffix(s, n) == SubSeq(s, n + 1, Len(s))

\* position of the first occurrence of x in s (0 when absent)
RECURSIVE IndexFrom(_, _, _)
IndexFrom(s, x, k) ==
  IF k > Len(s) THEN 0
  ELSE IF s[k] = x THEN k
  ELSE IndexFrom(s, x, k + 1)

\* list.remove(x): drops the first occurrence of x (the caller checks that
\* x is in the list; when it is not, Python raises ValueError)
ListRemove(s, x) ==
  LET k == IndexFrom(s, x, 1)
  IN  SubSeq(s, 1, k - 1) \o SubSeq(s, k + 1, Len(s))

\* number of occurrences of x in s
Count(s, x) == Cardinality({k \in 1..Len(s) : s[k] = x})

\* seed list of n distinct proxies
SeedList(n) == [k \in 1..n |-> k]

\* ---------------------------------------------------------------- variables
VARIABLES
  free_proxies,         \* self.free_proxies: the seed list
  working_proxies,      \* self.working_proxies: a list
  failed_proxies,       \* self.failed_proxies: a list
  proxy_performance,    \* self.proxy_performance: see below
  request_count,        \* self.request_count
  successful_requests,  \* self.successful_requests
  failed_requests,      \* self.failed_requests
  current_proxy_index,  \* self.current_proxy_index
  th,                   \* the request threads: program counter and locals
  bg,                   \* the daemon thread of _background_proxy_testing
  sched,                \* the thread that ran last, the preemptions so far
                        \* (counted from below 0 where more than MaxPreempt
                        \* are allowed)
  reports,              \* history, per proxy: base, the counters line 71
                        \* gave it (1 or 0); k, the outcome reports
                        \* begun; s, those of them that report a success;
                        \* probe, what its fast-start probe answered
  picks,                \* history: what _get_next_proxy returned since
                        \* working_proxies last changed, and the cursor then
  pm_proxies,           \* ProxyManager: self.proxies
  pm_working_proxies,   \* ProxyManager: self.working_proxies
  pm_failed_proxies,    \* ProxyManager: self.failed_proxies
  pm_current_index,     \* ProxyManager: self.current_index
  pm_ret,               \* what the last ProxyManager method returned
  pm_ops,               \* ProxyManager methods still to be called
  pm_picks              \* history: as picks, for get_working_proxy

(***************************************************************************)
(* proxy_performance[p] is the sequence of the dict objects                *)
(* {"success": s, "total": t} that were ever stored under the key of p:    *)
(* the last one is the value the dict holds now, the earlier ones were     *)
(* replaced (lines 94, 160) but a thread that fetched one of them before   *)
(* still reads and writes it.  The empty sequence: the key is absent.      *)
(***************************************************************************)
apiVars == <<free_proxies, working_proxies, failed_proxies, proxy_performance,
             request_count, successful_requests, failed_requests,
             current_proxy_index, th, bg, sched, reports, picks>>

pmVars == <<pm_proxies, pm_working_proxies, pm_failed_proxies,
            pm_current_index, pm_ret, pm_ops, pm_picks>>

HasPerf(p) == Len(proxy_performance[p]) > 0
CurRef(p) == Len(proxy_performance[p])
CurPerf(p) == proxy_performance[p][CurRef(p)]

NewPerf(s, t) == [success |-> s, total |-> t]

\* a request thread outside any call
IdleThread ==
  [pc |-> "idle", budget |-> 0, calls |-> 0, attempt |-> 0, proxy |-> None,
   i |-> 0, n |-> 0, c |-> 0, reg |-> 0, ref |-> 0, t |-> 0, s |-> 0,
   upd_succ |-> FALSE, in_handler |-> FALSE,
   \* history of the call in progress (or of the last call)
   proxied |-> 0, direct |-> 0, got200 |-> FALSE, got200p |-> FALSE,
   late |-> FALSE, nonempty |-> FALSE, result |-> "none", raised |-> "none",
   \* get_comprehensive_stats: the calls made, how the last one ended
   snaps |-> 0, snap |-> "none"]


\* ------------------------------------------------------------------ history
\* the history of a selector: on, whether it is recorded (it is where the
\* calls of the selector cannot overlap); start, the cursor when the
\* working list last changed; seq, the proxies returned since
NoPicks(on, cursor) == [on |-> on, start |-> cursor, seq |-> <<>>]

Picked(h, p) == IF h.on THEN [h EXCEPT !.seq = Append(@, p)] ELSE h

Restarted(h, cursor) == IF h.on THEN NoPicks(TRUE, cursor) ELSE h

\* ------------------------------------------------------------ construction
\* _test_proxy(proxy): the probe answers HTTP 200 exactly for the proxies of
\* the set ok (the environment's choice)
TestProxy(p, ok) == p \in ok

\* the loop of lines 68-74 over test_proxies, from the state acc
RECURSIVE FastStartLoop(_, _, _)
FastStartLoop(test, ok, acc) ==
  IF test = <<>> THEN acc
  ELSE LET p == Head(test)
       IN  IF TestProxy(p, ok)
           THEN FastStartLoop(Tail(test), ok,
                  [acc EXCEPT !.working = Append(@, p),
                              !.perf = [@ EXCEPT ![p] = <<NewPerf(1, 1)>>]])
           ELSE FastStartLoop(Tail(test), ok,
                  [acc EXCEPT !.failed = Append(@, p)])

\* mutant of InitializeProxies: the candidates whose probe failed stay
\* usable
InitializeProxiesAllUsable(seed, ok) ==
  LET acc == FastStartLoop(Prefix(seed, FastStart), ok,
               [working |-> <<>>, failed |-> <<>>,
                perf |-> [p \in Range(seed) |-> <<>>]])
  IN  [acc EXCEPT !.working = seed]

\* _initialize_proxies, up to the start of the daemon thread
InitializeProxies(seed, ok) ==
  LET test_proxies == Prefix(seed, FastStart)
      remaining_proxies == Suffix(seed, FastStart)
      acc == FastStartLoop(test_proxies, ok,
               [working |-> <<>>, failed |-> <<>>,
                perf |-> [p \in Range(seed) |-> <<>>]])
  IN  [acc EXCEPT !.working = @ \o remaining_proxies]

LongSeed == FastStart + Extra

\* the daemon thread before the first iteration of its loop (line 89)
SweepStart(seed) ==
  IF Len(seed) > FastStart
  THEN [pc |-> "L90w", k |-> FastStart + 1, ok |-> FALSE]
  ELSE [pc |-> "done", k |-> 0, ok |-> FALSE]

SweepDone == [pc |-> "done", k |-> 0, ok |-> FALSE]

\* __init__: the state when the constructor returns; allowed, the
\* preemptions the interleavings from there may hold
InitApiAllowing(budget, sweeps, lens, live, record, allowed) ==
  \E n \in lens, ok \in SUBSET (1..live) :
    LET seed == SeedList(n)
        st == InitializeProxies(seed, ok)
    IN  /\ free_proxies = seed
        /\ working_proxies = st.working
        /\ failed_proxies = st.failed
        /\ proxy_performance = st.perf
        /\ request_count = 0
        /\ successful_requests = 0
        /\ failed_requests = 0
        /\ current_proxy_index = 0
        /\ th = [t \in Threads |-> [IdleThread EXCEPT !.budget = budget[t]]]
        /\ bg = IF sweeps THEN SweepStart(seed) ELSE SweepDone
        /\ sched = [cur |-> Main, pre |-> MaxPreempt - allowed]
        /\ picks = NoPicks(record, 0)
        /\ reports = [p \in Range(seed) |->
                        [base |-> IF st.perf[p] = <<>> THEN 0 ELSE 1,
                         k |-> 0, s |-> 0,
                         probe |-> IF p > FastStart THEN "none"
                                   ELSE IF TestProxy(p, ok) THEN "ok"
                                   ELSE "failed"]]

InitApi(budget, sweeps, lens, live, record) ==
  InitApiAllowing(budget, sweeps, lens, live, record, MaxPreempt)


\* --------------------------------------------------------------- scheduling
(***************************************************************************)
(* A thread gives the interpreter away where it blocks: in requests.get    *)
(* (lines 109, 188, 216), in time.sleep (lines 101, 186, 210), in the      *)
(* calls of the logger (lines 25-29 put a stream handler on stderr at      *)
(* level INFO: every logger.info / warning / error takes the handler's     *)
(* lock, writes and flushes), and between two calls or at its end.  The    *)
(* logger calls of lines 199, 203, 207, 214, 222, 245 and 271 lead to a    *)
(* blocking point with no access to the shared state in between (the sleep *)
(* of line 210, the request of line 216, the end of the call), those of    *)
(* lines 87 and 103 are the first and the last thing the daemon thread     *)
(* does; the calls of lines 147 and 172 are positions of their own.  A     *)
(* switch away from a thread anywhere else is a preemption; the model      *)
(* explores every interleaving with at most MaxPreempt preemptions.        *)
(***************************************************************************)
YieldPcs == {"idle", "L147", "L172", "L188", "L210", "L216"}
SweepYieldPcs == {"L91", "L101", "done", "dead"}

\* the daemon thread before its first test of line 90: in the logger.info
\* of line 87
SweepStarting == bg.pc = "L90w" /\ bg.k = FastStart + 1

\* (the main thread serves: it blocks waiting for connections)
AtYield(x) ==
  IF x = Main THEN TRUE
  ELSE IF x = Bg THEN bg.pc \in SweepYieldPcs \/ SweepStarting
  ELSE th[x].pc \in YieldPcs

\* the thread x takes the next step
Step(x) ==
  LET free == sched.cur = x \/ AtYield(sched.cur)
  IN  /\ free \/ sched.pre < MaxPreempt
      /\ sched' = [cur |-> x,
                   pre |-> IF free THEN sched.pre ELSE sched.pre + 1]

\* ------------------------------------------------------- request threads
SetThread(t, r) == th' = [th EXCEPT ![t] = r]

\* the temporaries of a thread, dead outside the statement that uses them
Clear(r) ==
  [r EXCEPT !.i = 0, !.n = 0, !.c = 0, !.reg = 0, !.ref = 0, !.t = 0, !.s = 0]

\* the end of one iteration of "for attempt in range(max_retries)" (line
\* 179): the next iteration, or the direct attempt of line 213
NextIter(r) ==
  IF r.attempt + 1 < MaxRetries
  THEN [Clear(r) EXCEPT !.attempt = @ + 1, !.proxy = None, !.pc = "L146",
                        !.upd_succ = FALSE, !.in_handler = FALSE]
  ELSE [Clear(r) EXCEPT !.attempt = 0, !.proxy = None, !.pc = "L216",
                        !.upd_succ = FALSE, !.in_handler = FALSE]

\* search_web / read_url return their dict: "success": True after
\* _make_request_with_smart_rotation returned a response (lines 233, 259),
\* "success": False after it raised (lines 244, 270)
Finish(r, result, raised) ==
  [Clear(r) EXCEPT !.pc = "idle", !.calls = @ + 1, !.attempt = 0,
                   !.proxy = None, !.upd_succ = FALSE, !.in_handler = FALSE,
                   !.result = result, !.raised = raised]

\* mutant of Escape: search_web / read_url do not catch the exception
EscapeUncaught(r, exc) == Finish(r, "exception", exc)

\* an exception leaves _make_request_with_smart_rotation and is caught by
\* "except Exception" in search_web / read_url (lines 244, 270)
Escape(r, exc) == Finish(r, "failure", exc)

\* _update_proxy_performance(proxy, success) is entered
EnterUpdate(r, success, handler) ==
  [Clear(r) EXCEPT !.pc = "L159", !.upd_succ = success, !.in_handler = handler]

CountReport(p, success) ==
  reports' = [reports EXCEPT ![p].k = @ + 1,
                              ![p].s = @ + (IF success THEN 1 ELSE 0)]

\* _update_proxy_performance returns: to line 198 after the call of line
\* 197, to the end of the iteration after the calls of lines 202 and 206
UpdReturn(r) ==
  IF r.upd_succ /\ ~r.in_handler
  THEN [Clear(r) EXCEPT !.pc = "L198r"]
  ELSE [Clear(r) EXCEPT !.pc = "L210"]

\* The request threads run the same code: of the interleavings that differ
\* only by the names of the threads, the model keeps the one in which the
\* threads make their first calls in the order of their identifiers.
FirstCallsInOrder(t) ==
  \A u \in Threads :
    (u < t /\ th[u].budget > 0) => (th[u].calls > 0 \/ th[u].pc # "idle")

\* search_web / read_url call _make_request_with_smart_rotation; line 176
\* reads self.request_count
BeginCall(t) ==
  /\ th[t].pc = "idle"
  /\ th[t].calls < th[t].budget
  /\ FirstCallsInOrder(t)
  /\ Step(t)
  /\ SetThread(t, [Clear(th[t]) EXCEPT
         !.pc = "L176w", !.reg = request_count,
         !.proxied = 0, !.direct = 0, !.got200 = FALSE, !.got200p = FALSE,
         !.late = FALSE, !.nonempty = (working_proxies # <<>>),
         !.result = "none", !.raised = "none"])
  /\ UNCHANGED <<free_proxies, working_proxies, failed_proxies,
                 proxy_performance, request_count, successful_requests,
                 failed_requests, current_proxy_index, bg, reports>>
  /\ UNCHANGED <<picks, pmVars>>

\* line 176 stores self.request_count; the loop of line 179 begins
IncRequestCount(t) ==
  /\ th[t].pc = "L176w"
  /\ Step(t)
  /\ request_count' = th[t].reg + 1
  /\ SetThread(t, [Clear(th[t]) EXCEPT !.pc = "L146", !.attempt = 0])
  /\ UNCHANGED <<free_proxies, working_proxies, failed_proxies,
                 proxy_performance, successful_requests, failed_requests,
                 current_proxy_index, bg, reports>>
  /\ UNCHANGED <<picks, pmVars>>

\* mutant of SelCheckEmpty: the selector does not test for the empty list
SelCheckEmptyOmitted(t) ==
  /\ th[t].pc = "L146"
  /\ Step(t)
  /\ SetThread(t, [th[t] EXCEPT !.pc = "L151i"])
  /\ UNCHANGED <<free_proxies, working_proxies, failed_proxies,
                 proxy_performance, request_count, successful_requests,
                 failed_requests, current_proxy_index, bg, reports>>
  /\ UNCHANGED <<picks, pmVars>>

\* _get_next_proxy, lines 146-148: "if not self.working_proxies:", the
\* logger.warning of line 147 in which the thread blocks, and "return
\* None"; the caller's "if proxy:" (line 181) then skips the iteration
SelCheckEmpty(t) ==
  /\ th[t].pc \in {"L146", "L147"}
  /\ Step(t)
  /\ IF th[t].pc = "L147"
     THEN SetThread(t, NextIter(th[t]))
     ELSE IF working_proxies = <<>>
          THEN SetThread(t, [th[t] EXCEPT !.pc = "L147"])
          ELSE SetThread(t, [th[t] EXCEPT !.pc = "L151i"])
  /\ UNCHANGED <<free_proxies, working_proxies, failed_proxies,
                 proxy_performance, request_count, successful_requests,
                 failed_requests, current_proxy_index, bg, reports>>
  /\ UNCHANGED <<picks, pmVars>>

\* line 151 reads self.current_proxy_index
SelReadIndex(t) ==
  /\ th[t].pc = "L151i"
  /\ Step(t)
  /\ SetThread(t, [th[t] EXCEPT !.pc = "L151n", !.i = current_proxy_index])
  /\ UNCHANGED <<free_proxies, working_proxies, failed_proxies,
                 proxy_performance, request_count, successful_requests,
                 failed_requests, current_proxy_index, bg, reports>>
  /\ UNCHANGED <<picks, pmVars>>

\* line 151 evaluates len(self.working_proxies) and the modulo, which
\* raises ZeroDivisionError when the list has become empty
SelReadLen(t) ==
  /\ th[t].pc = "L151n"
  /\ Step(t)
  /\ IF Len(working_proxies) = 0
     THEN SetThread(t, Escape(th[t], "ZeroDivisionError"))
     ELSE SetThread(t, [th[t] EXCEPT !.pc = "L151x",
                                     !.n = Len(working_proxies)])
  /\ UNCHANGED <<free_proxies, working_proxies, failed_proxies,
                 proxy_performance, request_count, successful_requests,
                 failed_requests, current_proxy_index, bg, reports>>
  /\ UNCHANGED <<picks, pmVars>>

\* the round-robin position, as a 1-based position of the list
RoundRobin(i, n) == (i % n) + 1

\* line 151 subscripts the list, which raises IndexError when the list has
\* become shorter than the position
SelSubscript(t) ==
  /\ th[t].pc = "L151x"
  /\ Step(t)
  /\ LET j == RoundRobin(th[t].i, th[t].n)
     IN  IF j > Len(working_proxies)
         THEN SetThread(t, Escape(th[t], "IndexError"))
         ELSE SetThread(t, [th[t] EXCEPT !.pc = "L152r",
                                         !.proxy = working_proxies[j]])
  /\ UNCHANGED <<free_proxies, working_proxies, failed_proxies,
                 proxy_performance, request_count, successful_requests,
                 failed_requests, current_proxy_index, bg, reports>>
  /\ UNCHANGED <<picks, pmVars>>

\* line 152 reads self.current_proxy_index
SelReadCursor(t) ==
  /\ th[t].pc = "L152r"
  /\ Step(t)
  /\ SetThread(t, [th[t] EXCEPT !.pc = "L152w", !.c = current_proxy_index])
  /\ UNCHANGED <<free_proxies, working_proxies, failed_proxies,
                 proxy_performance, request_count, successful_requests,
                 failed_requests, current_proxy_index, bg, reports>>
  /\ UNCHANGED <<picks, pmVars>>

\* line 152 stores self.current_proxy_index; _get_next_proxy returns
SelWriteCursor(t) ==
  /\ th[t].pc = "L152w"
  /\ Step(t)
  /\ current_proxy_index' = th[t].c + 1
  /\ SetThread(t, [Clear(th[t]) EXCEPT !.pc = "L188"])
  /\ UNCHANGED <<free_proxies, working_proxies, failed_proxies,
                 proxy_performance, request_count, successful_requests,
                 failed_requests, bg, reports>>
  /\ picks' = Picked(picks, th[t].proxy)
  /\ UNCHANGED pmVars

\* what a request can come to: HTTP 200, another status, an exception
Outcomes == {"ok", "bad", "exc"}

\* lines 188-206: the request through the proxy, and the call of
\* _update_proxy_performance its outcome leads to (line 197, 202 or 206)
SendProxied(t) ==
  /\ th[t].pc = "L188"
  /\ Step(t)
  /\ \E o \in Outcomes :
       /\ SetThread(t, [EnterUpdate(th[t], o = "ok", o = "exc") EXCEPT
              !.proxied = @ + 1,
              !.got200 = @ \/ (o = "ok"),
              !.got200p = @ \/ (o = "ok"),
              !.late = @ \/ th[t].got200p])
       /\ CountReport(th[t].proxy, o = "ok")
  /\ UNCHANGED <<free_proxies, working_proxies, failed_proxies,
                 proxy_performance, request_count, successful_requests,
                 failed_requests, current_proxy_index, bg>>
  /\ UNCHANGED <<picks, pmVars>>


\* ------------------------------------------- _update_proxy_performance
\* line 159: "if proxy_key not in self.proxy_performance"
UpdCheckKey(t) ==
  /\ th[t].pc = "L159"
  /\ Step(t)
  /\ SetThread(t, [th[t] EXCEPT
         !.pc = IF HasPerf(th[t].proxy) THEN "L162r" ELSE "L160"])
  /\ UNCHANGED <<free_proxies, working_proxies, failed_proxies,
                 proxy_performance, request_count, successful_requests,
                 failed_requests, current_proxy_index, bg, reports>>
  /\ UNCHANGED <<picks, pmVars>>

\* line 160 stores a new dict {"success": 0, "total": 0} under the key
UpdCreate(t) ==
  /\ th[t].pc = "L160"
  /\ Step(t)
  /\ proxy_performance' =
       [proxy_performance EXCEPT ![th[t].proxy] = Append(@, NewPerf(0, 0))]
  /\ SetThread(t, [th[t] EXCEPT !.pc = "L162r"])
  /\ UNCHANGED <<free_proxies, working_proxies, failed_proxies,
                 request_count, successful_requests, failed_requests,
                 current_proxy_index, bg, reports>>
  /\ UNCHANGED <<picks, pmVars>>

\* line 162 fetches the dict of the key and reads its "total"
UpdReadTotal(t) ==
  /\ th[t].pc = "L162r"
  /\ Step(t)
  /\ SetThread(t, [th[t] EXCEPT !.pc = "L162w",
                                !.ref = CurRef(th[t].proxy),
                                !.t = CurPerf(th[t].proxy).total])
  /\ UNCHANGED <<free_proxies, working_proxies, failed_proxies,
                 proxy_performance, request_count, successful_requests,
                 failed_requests, current_proxy_index, bg, reports>>
  /\ UNCHANGED <<picks, pmVars>>

\* line 162 stores "total" in the dict it fetched
UpdWriteTotal(t) ==
  /\ th[t].pc = "L162w"
  /\ Step(t)
  /\ proxy_performance' =
       [proxy_performance EXCEPT ![th[t].proxy][th[t].ref].total = th[t].t + 1]
  /\ SetThread(t, [Clear(th[t]) EXCEPT
         !.pc = IF th[t].upd_succ THEN "L164r" ELSE "L167"])
  /\ UNCHANGED <<free_proxies, working_proxies, failed_proxies,
                 request_count, successful_requests, failed_requests,
                 current_proxy_index, bg, reports>>
  /\ UNCHANGED <<picks, pmVars>>

\* line 164 (success only) fetches the dict of the key and reads "success"
UpdReadSuccess(t) ==
  /\ th[t].pc = "L164r"
  /\ Step(t)
  /\ SetThread(t, [th[t] EXCEPT !.pc = "L164w",
                                !.ref = CurRef(th[t].proxy),
                                !.s = CurPerf(th[t].proxy).success])
  /\ UNCHANGED <<free_proxies, working_proxies, failed_proxies,
                 proxy_performance, request_count, successful_requests,
                 failed_requests, current_proxy_index, bg, reports>>
  /\ UNCHANGED <<picks, pmVars>>

\* mutant of UpdWriteSuccess: a success puts a failed proxy back to work
UpdWriteSuccessResurrects(t) ==
  /\ th[t].pc = "L164w"
  /\ Step(t)
  /\ proxy_performance' =
       [proxy_performance EXCEPT ![th[t].proxy][th[t].ref].success = th[t].s + 1]
  /\ IF th[t].proxy \in Range(failed_proxies)
        /\ th[t].proxy \notin Range(working_proxies)
     THEN /\ failed_proxies' = ListRemove(failed_proxies, th[t].proxy)
          /\ working_proxies' = Append(working_proxies, th[t].proxy)
          /\ picks' = Restarted(picks, current_proxy_index)
     ELSE UNCHANGED <<working_proxies, failed_proxies, picks>>
  /\ SetThread(t, [Clear(th[t]) EXCEPT !.pc = "L167"])
  /\ UNCHANGED <<free_proxies, request_count, successful_requests,
                 failed_requests, current_proxy_index, bg, reports>>
  /\ UNCHANGED pmVars

\* line 164 stores "success" in the dict it fetched
UpdWriteSuccess(t) ==
  /\ th[t].pc = "L164w"
  /\ Step(t)
  /\ proxy_performance' =
       [proxy_performance EXCEPT ![th[t].proxy][th[t].ref].success = th[t].s + 1]
  /\ SetThread(t, [Clear(th[t]) EXCEPT !.pc = "L167"])
  /\ UNCHANGED <<free_proxies, working_proxies, failed_proxies,
                 request_count, successful_requests, failed_requests,
                 current_proxy_index, bg, reports>>
  /\ UNCHANGED <<picks, pmVars>>

\* mutant of BelowFloor: the floor itself counts as below it
BelowFloorInclusive(success, total) == success * FloorInverse <= total

\* perf["success"] / perf["total"] < 0.2 on the floats of two counters:
\* the quotient is below the float 0.2 exactly when success * 5 < total
BelowFloor(success, total) == success * FloorInverse < total

\* line 168: the proxy is to be evicted
ShouldEvict(success, total) == total >= MinSample /\ BelowFloor(success, total)

\* line 167 fetches perf, line 168 reads perf["total"] for "total >= 5";
\* when that is false the "and" is decided and the function returns
UpdReadPerf(t) ==
  /\ th[t].pc = "L167"
  /\ Step(t)
  /\ LET tot == CurPerf(th[t].proxy).total
     IN  IF tot >= MinSample
         THEN SetThread(t, [th[t] EXCEPT !.pc = "L168s",
                                         !.ref = CurRef(th[t].proxy)])
         ELSE SetThread(t, UpdReturn(th[t]))
  /\ UNCHANGED <<free_proxies, working_proxies, failed_proxies,
                 proxy_performance, request_count, successful_requests,
                 failed_requests, current_proxy_index, bg, reports>>
  /\ UNCHANGED <<picks, pmVars>>

\* line 168 reads perf["success"]
UpdReadRatioSuccess(t) ==
  /\ th[t].pc = "L168s"
  /\ Step(t)
  /\ SetThread(t, [th[t] EXCEPT
         !.pc = "L168t",
         !.s = proxy_performance[th[t].proxy][th[t].ref].success])
  /\ UNCHANGED <<free_proxies, working_proxies, failed_proxies,
                 proxy_performance, request_count, successful_requests,
                 failed_requests, current_proxy_index, bg, reports>>
  /\ UNCHANGED <<picks, pmVars>>

\* line 168 reads perf["total"] again, divides and compares with 0.2
UpdReadRatioTotal(t) ==
  /\ th[t].pc = "L168t"
  /\ Step(t)
  /\ LET tot == proxy_performance[th[t].proxy][th[t].ref].total
     IN  IF BelowFloor(th[t].s, tot)
         THEN SetThread(t, [Clear(th[t]) EXCEPT !.pc = "L169"])
         ELSE SetThread(t, UpdReturn(th[t]))
  /\ UNCHANGED <<free_proxies, working_proxies, failed_proxies,
                 proxy_performance, request_count, successful_requests,
                 failed_requests, current_proxy_index, bg, reports>>
  /\ UNCHANGED <<picks, pmVars>>

\* line 169: "if proxy in self.working_proxies"
UpdCheckWorking(t) ==
  /\ th[t].pc = "L169"
  /\ Step(t)
  /\ IF th[t].proxy \in Range(working_proxies)
     THEN SetThread(t, [th[t] EXCEPT !.pc = "L170"])
     ELSE SetThread(t, UpdReturn(th[t]))
  /\ UNCHANGED <<free_proxies, working_proxies, failed_proxies,
                 proxy_performance, request_count, successful_requests,
                 failed_requests, current_proxy_index, bg, reports>>
  /\ UNCHANGED <<picks, pmVars>>

\* line 170: self.working_proxies.remove(proxy).  When the proxy is no
\* longer in the list remove raises ValueError: raised under the try of
\* line 182 (the calls of lines 197 and 202) it is caught at line 205,
\* whose handler reports a failure (line 206); raised by that call of line
\* 206 it leaves _make_request_with_smart_rotation
UpdRemove(t) ==
  /\ th[t].pc = "L170"
  /\ Step(t)
  /\ IF th[t].proxy \in Range(working_proxies)
     THEN /\ working_proxies' = ListRemove(working_proxies, th[t].proxy)
          /\ picks' = Restarted(picks, current_proxy_index)
          /\ SetThread(t, [th[t] EXCEPT !.pc = "L171"])
          /\ UNCHANGED reports
     ELSE /\ UNCHANGED <<working_proxies, picks>>
          /\ IF th[t].in_handler
             THEN /\ SetThread(t, Escape(th[t], "ValueError"))
                  /\ UNCHANGED reports
             ELSE /\ SetThread(t, EnterUpdate(th[t], FALSE, TRUE))
                  /\ CountReport(th[t].proxy, FALSE)
  /\ UNCHANGED <<free_proxies, failed_proxies, proxy_performance,
                 request_count, successful_requests, failed_requests,
                 current_proxy_index, bg>>
  /\ UNCHANGED pmVars

\* line 171: self.failed_proxies.append(proxy); the thread enters the
\* logger.info of line 172
UpdAppendFailed(t) ==
  /\ th[t].pc = "L171"
  /\ Step(t)
  /\ failed_proxies' = Append(failed_proxies, th[t].proxy)
  /\ SetThread(t, [th[t] EXCEPT !.pc = "L172"])
  /\ UNCHANGED <<free_proxies, working_proxies, proxy_performance,
                 request_count, successful_requests, failed_requests,
                 current_proxy_index, bg, reports>>
  /\ UNCHANGED <<picks, pmVars>>

\* line 172: logger.info returns, and with it _update_proxy_performance
UpdLogRemoved(t) ==
  /\ th[t].pc = "L172"
  /\ Step(t)
  /\ SetThread(t, UpdReturn(th[t]))
  /\ UNCHANGED <<free_proxies, working_proxies, failed_proxies,
                 proxy_performance, request_count, successful_requests,
                 failed_requests, current_proxy_index, bg, reports>>
  /\ UNCHANGED <<picks, pmVars>>

\* --------------------------------- the rest of _make_request_with_smart_rotation
\* line 210: the sleep between two attempts
Backoff(t) ==
  /\ th[t].pc = "L210"
  /\ Step(t)
  /\ SetThread(t, NextIter(th[t]))
  /\ UNCHANGED <<free_proxies, working_proxies, failed_proxies,
                 proxy_performance, request_count, successful_requests,
                 failed_requests, current_proxy_index, bg, reports>>
  /\ UNCHANGED <<picks, pmVars>>

\* line 198 reads self.successful_requests
ProxiedSuccessRead(t) ==
  /\ th[t].pc = "L198r"
  /\ Step(t)
  /\ SetThread(t, [th[t] EXCEPT !.pc = "L198w", !.reg = successful_requests])
  /\ UNCHANGED <<free_proxies, working_proxies, failed_proxies,
                 proxy_performance, request_count, successful_requests,
                 failed_requests, current_proxy_index, bg, reports>>
  /\ UNCHANGED <<picks, pmVars>>

\* line 198 stores self.successful_requests; line 200 returns the response
ProxiedSuccessWrite(t) ==
  /\ th[t].pc = "L198w"
  /\ Step(t)
  /\ successful_requests' = th[t].reg + 1
  /\ SetThread(t, Finish(th[t], "success", "none"))
  /\ UNCHANGED <<free_proxies, working_proxies, failed_proxies,
                 proxy_performance, request_count, failed_requests,
                 current_proxy_index, bg, reports>>
  /\ UNCHANGED <<picks, pmVars>>

\* mutant of SendDirect: the direct attempt advances the cursor, as an
\* attempt through the selector does
SendDirectAdvancesCursor(t) ==
  /\ th[t].pc = "L216"
  /\ Step(t)
  /\ \E o \in Outcomes :
       LET r == [th[t] EXCEPT !.direct = @ + 1,
                              !.got200 = @ \/ (o = "ok"),
                              !.late = @ \/ th[t].got200p]
       IN  CASE o = "ok"  -> SetThread(t, [r EXCEPT !.pc = "L218r"])
             [] o = "bad" -> SetThread(t, Finish(r, "success", "none"))
             [] o = "exc" -> SetThread(t, [r EXCEPT !.pc = "L221r"])
  /\ current_proxy_index' = current_proxy_index + 1
  /\ UNCHANGED <<free_proxies, working_proxies, failed_proxies,
                 proxy_performance, request_count, successful_requests,
                 failed_requests, bg, reports>>
  /\ UNCHANGED <<picks, pmVars>>

\* line 216: the request without a proxy.  HTTP 200 goes on to line 218,
\* an exception to line 221, and a response of another status is returned
\* as it is (line 219), which the caller wraps in "success": True
SendDirect(t) ==
  /\ th[t].pc = "L216"
  /\ Step(t)
  /\ \E o \in Outcomes :
       LET r == [th[t] EXCEPT !.direct = @ + 1,
                              !.got200 = @ \/ (o = "ok"),
                              !.late = @ \/ th[t].got200p]
       IN  CASE o = "ok"  -> SetThread(t, [r EXCEPT !.pc = "L218r"])
             [] o = "bad" -> SetThread(t, Finish(r, "success", "none"))
             [] o = "exc" -> SetThread(t, [r EXCEPT !.pc = "L221r"])
  /\ UNCHANGED <<free_proxies, working_proxies, failed_proxies,
                 proxy_performance, request_count, successful_requests,
                 failed_requests, current_proxy_index, bg, reports>>
  /\ UNCHANGED <<picks, pmVars>>

\* line 218 reads self.successful_requests
DirectSuccessRead(t) ==
  /\ th[t].pc = "L218r"
  /\ Step(t)
  /\ SetThread(t, [th[t] EXCEPT !.pc = "L218w", !.reg = successful_requests])
  /\ UNCHANGED <<free_proxies, working_proxies, failed_proxies,
                 proxy_performance, request_count, successful_requests,
                 failed_requests, current_proxy_index, bg, reports>>
  /\ UNCHANGED <<picks, pmVars>>

\* line 218 stores self.successful_requests; line 219 returns the response
DirectSuccessWrite(t) ==
  /\ th[t].pc = "L218w"
  /\ Step(t)
  /\ successful_requests' = th[t].reg + 1
  /\ SetThread(t, Finish(th[t], "success", "none"))
  /\ UNCHANGED <<free_proxies, working_proxies, failed_proxies,
                 proxy_performance, request_count, failed_requests,
                 current_proxy_index, bg, reports>>
  /\ UNCHANGED <<picks, pmVars>>

\* line 221 reads self.failed_requests
DirectFailureRead(t) ==
  /\ th[t].pc = "L221r"
  /\ Step(t)
  /\ SetThread(t, [th[t] EXCEPT !.pc = "L221w", !.reg = failed_requests])
  /\ UNCHANGED <<free_proxies, working_proxies, failed_proxies,
                 proxy_performance, request_count, successful_requests,
                 failed_requests, current_proxy_index, bg, reports>>
  /\ UNCHANGED <<picks, pmVars>>

\* line 221 stores self.failed_requests; line 223 raises the exception
DirectFailureWrite(t) ==
  /\ th[t].pc = "L221w"
  /\ Step(t)
  /\ failed_requests' = th[t].reg + 1
  /\ SetThread(t, Escape(th[t], "RequestException"))
  /\ UNCHANGED <<free_proxies, working_proxies, failed_proxies,
                 proxy_performance, request_count, successful_requests,
                 current_proxy_index, bg, reports>>
  /\ UNCHANGED <<picks, pmVars>>


\* ------------------------------------------------ get_comprehensive_stats
\* the endpoint /stats calls get_comprehensive_stats on a request thread
StatsBegin(t) ==
  /\ th[t].pc = "idle"
  /\ Step(t)
  /\ th[t].snaps < MaxSnaps
  /\ SetThread(t, [th[t] EXCEPT !.pc = "L281", !.snap = "none"])
  /\ UNCHANGED <<free_proxies, working_proxies, failed_proxies,
                 proxy_performance, request_count, successful_requests,
                 failed_requests, current_proxy_index, bg, reports>>
  /\ UNCHANGED <<picks, pmVars>>

\* get_comprehensive_stats returns, or raises exc
StatsEnd(r, how) ==
  [r EXCEPT !.pc = "idle", !.snaps = @ + 1, !.snap = how]

\* lines 281-307: the counters, the records and the lengths of the lists
\* are read; the divisions are by max(request_count, 1), by a total tested
\* positive (a record's total never returns to 0) and by
\* len(self.free_proxies)
StatsRead(t) ==
  /\ th[t].pc = "L281"
  /\ Step(t)
  /\ IF Len(free_proxies) = 0
     THEN SetThread(t, StatsEnd(th[t], "ZeroDivisionError"))
     ELSE SetThread(t, [th[t] EXCEPT !.pc = "L308c"])
  /\ UNCHANGED <<free_proxies, working_proxies, failed_proxies,
                 proxy_performance, request_count, successful_requests,
                 failed_requests, current_proxy_index, bg, reports>>
  /\ UNCHANGED <<picks, pmVars>>

\* line 308, the condition: "... if self.working_proxies else 0"
StatsCheckWorking(t) ==
  /\ th[t].pc = "L308c"
  /\ Step(t)
  /\ IF working_proxies = <<>>
     THEN SetThread(t, StatsEnd(th[t], "ok"))
     ELSE SetThread(t, [th[t] EXCEPT !.pc = "L308i"])
  /\ UNCHANGED <<free_proxies, working_proxies, failed_proxies,
                 proxy_performance, request_count, successful_requests,
                 failed_requests, current_proxy_index, bg, reports>>
  /\ UNCHANGED <<picks, pmVars>>

\* line 308, the left operand: self.current_proxy_index
StatsReadIndex(t) ==
  /\ th[t].pc = "L308i"
  /\ Step(t)
  /\ SetThread(t, [th[t] EXCEPT !.pc = "L308n", !.i = current_proxy_index])
  /\ UNCHANGED <<free_proxies, working_proxies, failed_proxies,
                 proxy_performance, request_count, successful_requests,
                 failed_requests, current_proxy_index, bg, reports>>
  /\ UNCHANGED <<picks, pmVars>>

\* line 308, the right operand and the modulo:
\* "% len(self.working_proxies)"
StatsModulo(t) ==
  /\ th[t].pc = "L308n"
  /\ Step(t)
  /\ IF Len(working_proxies) = 0
     THEN SetThread(t, StatsEnd(Clear(th[t]), "ZeroDivisionError"))
     ELSE SetThread(t, StatsEnd(Clear(th[t]), "ok"))
  /\ UNCHANGED <<free_proxies, working_proxies, failed_proxies,
                 proxy_performance, request_count, successful_requests,
                 failed_requests, current_proxy_index, bg, reports>>
  /\ UNCHANGED <<picks, pmVars>>

Stats(t) ==
  \/ StatsBegin(t)
  \/ StatsRead(t)
  \/ StatsCheckWorking(t)
  \/ StatsReadIndex(t)
  \/ StatsModulo(t)

\* ------------------------------------------- _background_proxy_testing
SweepProxy == free_proxies[bg.k]

\* the end of one iteration of "for proxy in self.free_proxies[20:]"
SweepNext ==
  IF bg.k + 1 <= Len(free_proxies)
  THEN [pc |-> "L90w", k |-> bg.k + 1, ok |-> FALSE]
  ELSE SweepDone

\* the probed iteration ends in the sleep of line 101
SweepToSleep == [bg EXCEPT !.pc = "L101"]

\* line 90, left operand: "proxy not in self.working_proxies"
SweepCheckWorking ==
  /\ bg.pc = "L90w"
  /\ Step(Bg)
  /\ bg' = IF SweepProxy \in Range(working_proxies)
           THEN SweepNext
           ELSE [bg EXCEPT !.pc = "L90f"]
  /\ UNCHANGED <<free_proxies, working_proxies, failed_proxies,
                 proxy_performance, request_count, successful_requests,
                 failed_requests, current_proxy_index, th, reports>>
  /\ UNCHANGED <<picks, pmVars>>

\* line 90, right operand: "proxy not in self.failed_proxies"
SweepCheckFailed ==
  /\ bg.pc = "L90f"
  /\ Step(Bg)
  /\ bg' = IF SweepProxy \in Range(failed_proxies)
           THEN SweepNext
           ELSE [bg EXCEPT !.pc = "L91"]
  /\ UNCHANGED <<free_proxies, working_proxies, failed_proxies,
                 proxy_performance, request_count, successful_requests,
                 failed_requests, current_proxy_index, th, reports>>
  /\ UNCHANGED <<picks, pmVars>>

\* line 91: self._test_proxy(proxy, timeout=10)
SweepProbe ==
  /\ bg.pc = "L91"
  /\ Step(Bg)
  /\ \E ok \in BOOLEAN :
       bg' = [bg EXCEPT !.pc = IF ok THEN "L92" ELSE "L96", !.ok = ok]
  /\ UNCHANGED <<free_proxies, working_proxies, failed_proxies,
                 proxy_performance, request_count, successful_requests,
                 failed_requests, current_proxy_index, th, reports>>
  /\ UNCHANGED <<picks, pmVars>>

\* line 92: "if proxy not in self.working_proxies"
SweepRecheckWorking ==
  /\ bg.pc = "L92"
  /\ Step(Bg)
  /\ bg' = IF SweepProxy \in Range(working_proxies)
           THEN SweepToSleep
           ELSE [bg EXCEPT !.pc = "L93"]
  /\ UNCHANGED <<free_proxies, working_proxies, failed_proxies,
                 proxy_performance, request_count, successful_requests,
                 failed_requests, current_proxy_index, th, reports>>
  /\ UNCHANGED <<picks, pmVars>>

\* line 93: self.working_proxies.append(proxy)
SweepAppendWorking ==
  /\ bg.pc = "L93"
  /\ Step(Bg)
  /\ working_proxies' = Append(working_proxies, SweepProxy)
  /\ bg' = [bg EXCEPT !.pc = "L94"]
  /\ th' = [t \in Threads |->
              IF th[t].pc = "idle" THEN th[t]
              ELSE [th[t] EXCEPT !.nonempty = TRUE]]
  /\ UNCHANGED <<free_proxies, failed_proxies, proxy_performance,
                 request_count, successful_requests, failed_requests,
                 current_proxy_index, reports>>
  /\ picks' = Restarted(picks, current_proxy_index)
  /\ UNCHANGED pmVars

\* line 94 stores a new dict {"success": 1, "total": 1} under the key
SweepStorePerf ==
  /\ bg.pc = "L94"
  /\ Step(Bg)
  /\ proxy_performance' =
       [proxy_performance EXCEPT ![SweepProxy] = Append(@, NewPerf(1, 1))]
  /\ bg' = SweepToSleep
  /\ UNCHANGED <<free_proxies, working_proxies, failed_proxies,
                 request_count, successful_requests, failed_requests,
                 current_proxy_index, th, reports>>
  /\ UNCHANGED <<picks, pmVars>>

\* lines 96-97: "if proxy in self.working_proxies:
\* self.working_proxies.remove(proxy)"; a ValueError of remove ends the thread
SweepEvict ==
  /\ bg.pc \in {"L96", "L97"}
  /\ Step(Bg)
  /\ IF bg.pc = "L96"
     THEN /\ bg' = [bg EXCEPT !.pc = IF SweepProxy \in Range(working_proxies)
                                     THEN "L97" ELSE "L98"]
          /\ UNCHANGED <<working_proxies, picks>>
     ELSE IF SweepProxy \in Range(working_proxies)
          THEN /\ working_proxies' = ListRemove(working_proxies, SweepProxy)
               /\ picks' = Restarted(picks, current_proxy_index)
               /\ bg' = [bg EXCEPT !.pc = "L98"]
          ELSE /\ bg' = [bg EXCEPT !.pc = "dead"]
               /\ UNCHANGED <<working_proxies, picks>>
  /\ UNCHANGED <<free_proxies, failed_proxies, proxy_performance,
                 request_count, successful_requests, failed_requests,
                 current_proxy_index, th, reports>>
  /\ UNCHANGED pmVars

\* line 98: "if proxy not in self.failed_proxies"
SweepRecheckFailed ==
  /\ bg.pc = "L98"
  /\ Step(Bg)
  /\ bg' = IF SweepProxy \in Range(failed_proxies)
           THEN SweepToSleep
           ELSE [bg EXCEPT !.pc = "L99"]
  /\ UNCHANGED <<free_proxies, working_proxies, failed_proxies,
                 proxy_performance, request_count, successful_requests,
                 failed_requests, current_proxy_index, th, reports>>
  /\ UNCHANGED <<picks, pmVars>>

\* line 99: self.failed_proxies.append(proxy)
SweepAppendFailed ==
  /\ bg.pc = "L99"
  /\ Step(Bg)
  /\ failed_proxies' = Append(failed_proxies, SweepProxy)
  /\ bg' = SweepToSleep
  /\ UNCHANGED <<free_proxies, working_proxies, proxy_performance,
                 request_count, successful_requests, failed_requests,
                 current_proxy_index, th, reports>>
  /\ UNCHANGED <<picks, pmVars>>

\* line 101: time.sleep(0.5), then the next proxy
SweepSleep ==
  /\ bg.pc = "L101"
  /\ Step(Bg)
  /\ bg' = SweepNext
  /\ UNCHANGED <<free_proxies, working_proxies, failed_proxies,
                 proxy_performance, request_count, successful_requests,
                 failed_requests, current_proxy_index, th, reports>>
  /\ UNCHANGED <<picks, pmVars>>

\* ---------------------------------------------------------- ProxyManager
(***************************************************************************)
(* src/proxy_manager.py.  Nothing in the class starts a thread or is       *)
(* called from one: each method is one step.                               *)
(***************************************************************************)
\* no ProxyManager is in use
NoProxyManager ==
  /\ pm_proxies = <<>>
  /\ pm_working_proxies = <<>>
  /\ pm_failed_proxies = <<>>
  /\ pm_current_index = 0
  /\ pm_ret = None
  /\ pm_ops = 0
  /\ pm_picks = NoPicks(FALSE, 0)

\* __init__ (lines 13-21), which ends in load_free_proxies
InitProxyManager ==
  \E n \in 1..MaxPmSeed :
    /\ pm_proxies = SeedList(n)
    /\ pm_working_proxies = SeedList(n)
    /\ pm_failed_proxies = <<>>
    /\ pm_current_index = 0
    /\ pm_ret = None
    /\ pm_ops = MaxPmOps
    /\ pm_picks = NoPicks(TRUE, 0)

\* load_free_proxies: self.proxies = PROXY_LIST;
\* self.working_proxies = self.proxies.copy()
PmLoadFreeProxies ==
  /\ pm_ops > 0
  /\ pm_ops' = pm_ops - 1
  /\ pm_working_proxies' = pm_proxies
  /\ pm_picks' = Restarted(pm_picks, pm_current_index)
  /\ pm_ret' = None
  /\ UNCHANGED <<pm_proxies, pm_failed_proxies, pm_current_index>>
  /\ UNCHANGED apiVars

\* get_working_proxy
PmGetWorkingProxy ==
  /\ pm_ops > 0
  /\ pm_ops' = pm_ops - 1
  /\ IF pm_working_proxies = <<>>
     THEN \* lines 44-47: reload the list, return None
          /\ pm_working_proxies' = pm_proxies
          /\ pm_picks' = Restarted(pm_picks, pm_current_index)
          /\ pm_ret' = None
          /\ UNCHANGED pm_current_index
     ELSE \* lines 49-52
          LET proxy == pm_working_proxies[
                         RoundRobin(pm_current_index, Len(pm_working_proxies))]
          IN  /\ pm_current_index' = pm_current_index + 1
              /\ pm_ret' = proxy
              /\ pm_picks' = Picked(pm_picks, proxy)
              /\ UNCHANGED pm_working_proxies
  /\ UNCHANGED <<pm_proxies, pm_failed_proxies>>
  /\ UNCHANGED apiVars

\* mark_proxy_failed(proxy)
PmMarkProxyFailed(proxy) ==
  /\ pm_ops > 0
  /\ pm_ops' = pm_ops - 1
  /\ IF proxy \in Range(pm_working_proxies)
     THEN /\ pm_working_proxies' = ListRemove(pm_working_proxies, proxy)
          /\ pm_failed_proxies' = Append(pm_failed_proxies, proxy)
          /\ pm_picks' = Restarted(pm_picks, pm_current_index)
     ELSE UNCHANGED <<pm_working_proxies, pm_failed_proxies, pm_picks>>
  /\ pm_ret' = None
  /\ UNCHANGED <<pm_proxies, pm_current_index>>
  /\ UNCHANGED apiVars

\* lines 66-69: the proxies of failed whose probe (res[k] for the k-th)
\* answered, in the order of the list
RECURSIVE Recovered(_, _, _)
Recovered(failed, res, k) ==
  IF k > Len(failed) THEN <<>>
  ELSE (IF res[k] THEN <<failed[k]>> ELSE <<>>) \o Recovered(failed, res, k + 1)

\* lines 72-74: each recovered proxy leaves failed and joins working
RECURSIVE MoveRecovered(_, _)
MoveRecovered(recovered, lists) ==
  IF recovered = <<>> THEN lists
  ELSE MoveRecovered(Tail(recovered),
         [working |-> Append(lists.working, Head(recovered)),
          failed |-> ListRemove(lists.failed, Head(recovered))])

\* refresh_proxy_list
PmRefreshProxyList ==
  /\ pm_ops > 0
  /\ pm_ops' = pm_ops - 1
  /\ \E res \in [1..Len(pm_failed_proxies) -> BOOLEAN] :
       LET recovered == Recovered(pm_failed_proxies, res, 1)
           lists == MoveRecovered(recovered,
                      [working |-> pm_working_proxies,
                       failed |-> pm_failed_proxies])
       IN  /\ pm_working_proxies' = lists.working
           /\ pm_failed_proxies' = lists.failed
           /\ pm_picks' = IF recovered = <<>> THEN pm_picks
                          ELSE Restarted(pm_picks, pm_current_index)
  /\ pm_ret' = None
  /\ UNCHANGED <<pm_proxies, pm_current_index>>
  /\ UNCHANGED apiVars

\* ------------------------------------------------------- specifications
Dispatch(t) ==
  \/ BeginCall(t)
  \/ IncRequestCount(t)
  \/ SelCheckEmpty(t)
  \/ SelReadIndex(t)
  \/ SelReadLen(t)
  \/ SelSubscript(t)
  \/ SelReadCursor(t)
  \/ SelWriteCursor(t)
  \/ SendProxied(t)
  \/ UpdCheckKey(t)
  \/ UpdCreate(t)
  \/ UpdReadTotal(t)
  \/ UpdWriteTotal(t)
  \/ UpdReadSuccess(t)
  \/ UpdWriteSuccess(t)
  \/ UpdReadPerf(t)
  \/ UpdReadRatioSuccess(t)
  \/ UpdReadRatioTotal(t)
  \/ UpdCheckWorking(t)
  \/ UpdRemove(t)
  \/ UpdAppendFailed(t)
  \/ UpdLogRemoved(t)
  \/ Backoff(t)
  \/ ProxiedSuccessRead(t)
  \/ ProxiedSuccessWrite(t)
  \/ SendDirect(t)
  \/ DirectSuccessRead(t)
  \/ DirectSuccessWrite(t)
  \/ DirectFailureRead(t)
  \/ DirectFailureWrite(t)

Sweep ==
  \/ SweepCheckWorking
  \/ SweepCheckFailed
  \/ SweepProbe
  \/ SweepRecheckWorking
  \/ SweepAppendWorking
  \/ SweepStorePerf
  \/ SweepEvict
  \/ SweepRecheckFailed
  \/ SweepAppendFailed
  \/ SweepSleep

vars == <<apiVars, pmVars>>

\* the request threads and the daemon thread, interleaved
Init ==
  /\ InitApi([t \in Threads |-> MaxCalls], TRUE, {LongSeed}, MaxLive, FALSE)
  /\ NoProxyManager

Next == (\E t \in Threads : Dispatch(t)) \/ Sweep

Spec == Init /\ [][Next]_vars


\* one request thread making its calls one after the other, the daemon
\* thread having finished
InitSeq ==
  /\ InitApi([t \in Threads |-> IF t = 1 THEN MaxSeqCalls ELSE 0], FALSE,
             {SmallSeed, LongSeed}, MaxLive, TRUE)
  /\ NoProxyManager

NextSeq == \E t \in Threads : Dispatch(t)

SpecSeq == InitSeq /\ [][NextSeq]_vars

\* one request thread and the daemon thread, every thread that can take a
\* step eventually taking one (the interpreter switches threads on a
\* timer, and requests.get and time.sleep return)
InitLive ==
  /\ InitApi([t \in Threads |-> IF t = 1 THEN MaxCalls ELSE 0], TRUE,
             {LongSeed}, MaxLive, FALSE)
  /\ NoProxyManager

Fairness ==
  /\ WF_vars(Sweep)
  /\ \A t \in Threads : WF_vars(Dispatch(t))

SpecLive == InitLive /\ [][Next]_vars /\ Fairness

\* one request thread dispatching while the request threads take
\* statistics snapshots, the daemon thread having finished
InitStats ==
  /\ InitApi([t \in Threads |-> IF t = 1 THEN MaxCalls ELSE 0], FALSE,
             {LongSeed}, MaxLive, FALSE)
  /\ NoProxyManager

NextStats == \E t \in Threads : Dispatch(t) \/ Stats(t)

SpecStats == InitStats /\ [][NextStats]_vars

\* one request thread making its calls one after the other while the
\* daemon thread sweeps, with preemptions enough for the sweep to add a
\* proxy between two iterations of a call
InitLate ==
  /\ InitApiAllowing([t \in Threads |-> IF t = 1 THEN MaxLateCalls ELSE 0],
                     TRUE, {LongSeed}, MaxLive, FALSE, MaxLatePreempt)
  /\ NoProxyManager

SpecLate == InitLate /\ [][Next]_vars

\* the first calls after a fast start, over the seed lists up to the short
\* one and over the long one, every outcome of the probes
InitFast ==
  /\ InitApi([t \in Threads |-> IF t = 1 THEN MaxCalls ELSE 0], FALSE,
             (1..SmallSeed) \cup {LongSeed}, SmallSeed, TRUE)
  /\ NoProxyManager

SpecFast == InitFast /\ [][NextSeq]_vars

\* the ProxyManager alone, its methods called in any order
NoApi == InitApi([t \in Threads |-> 0], FALSE, {SmallSeed}, 0, FALSE)

InitPm == NoApi /\ InitProxyManager

NextPm ==
  \/ PmLoadFreeProxies
  \/ PmGetWorkingProxy
  \/ \E proxy \in Range(pm_proxies) : PmMarkProxyFailed(proxy)
  \/ PmRefreshProxyList

SpecPm == InitPm /\ [][NextPm]_vars

\* either selector, its calls one after the other
InitSel == InitSeq \/ InitPm

NextSel == NextSeq \/ NextPm

SpecSel == InitSel /\ [][NextSel]_vars

\* ------------------------------------------------------------------ claims
InCall(t) == th[t].pc # "idle"
CallDone(t) == th[t].pc = "idle" /\ th[t].calls > 0

\* the outcome report of thread t has returned (to line 198, or to the
\* sleep of line 210); th[t].proxy is the proxy it was about
ReportDone(t) == th[t].pc \in {"L198r", "L210"}

\* C1: every candidate proxy is in exactly one of working_proxies and
\* failed_proxies: never in both, never in neither, never twice in a list.
\* (The claim as stated; the code breaks it.)
C1_ExactlyOneBucket ==
  \A p \in Range(free_proxies) :
    Count(working_proxies, p) + Count(failed_proxies, p) = 1

\* C2: when an outcome report on a proxy of the working list has returned,
\* the proxy has been moved to failed_proxies if and only if its counters
\* now have total >= 5 and 5 * success < total.
C2_EvictionRule ==
  \A t \in Threads :
    ReportDone(t) =>
      LET p == th[t].proxy
          c == CurPerf(p)
      IN  (p \in Range(failed_proxies) /\ p \notin Range(working_proxies))
            <=> (c.total >= 5 /\ 5 * c.success < c.total)

\* C2, the cases it names: 1 success of 5 stays in the working list, a
\* failure that leaves total below 5 does not evict
C2_Scenario ==
  \A t \in Threads :
    ReportDone(t) =>
      LET p == th[t].proxy
          c == CurPerf(p)
      IN  /\ (c.success = 1 /\ c.total = 5) => p \in Range(working_proxies)
          /\ c.total < 5 => p \in Range(working_proxies)
          /\ (c.success = 1 /\ c.total = 6) => p \in Range(failed_proxies)

C2_Theorem == C2_EvictionRule /\ C2_Scenario

\* C2 witness: the sixth attempt on a proxy with 1 success of 5 has failed
\* and its report has evicted the proxy
C2_Witness ==
  \E t \in Threads :
    /\ th[t].pc = "L210"
    /\ CurPerf(th[t].proxy) = NewPerf(1, 6)
    /\ th[t].proxy \in Range(failed_proxies)
    /\ th[t].proxy \notin Range(working_proxies)

\* C3: a proxy that is in failed_proxies and not in working_proxies enters
\* working_proxies only by the append of line 93, which the daemon thread
\* reaches after a probe of that proxy that returned true; no step of a
\* dispatch call puts it back.
C3_OnlyProbeRecovers ==
  [][\A p \in Range(free_proxies) :
       (/\ p \in Range(failed_proxies)
        /\ p \notin Range(working_proxies)
        /\ p \in Range(working_proxies'))
       => (/\ bg.pc = "L93" /\ bg'.pc = "L94"
           /\ bg.ok
           /\ free_proxies[bg.k] = p
           /\ th' = [t \in Threads |->
                       IF th[t].pc = "idle" THEN th[t]
                       ELSE [th[t] EXCEPT !.nonempty = TRUE]])]_vars

\* C3 witness: a request through a proxy that was evicted meanwhile got
\* HTTP 200, its successful report has returned, and the proxy is still
\* failed and not working
C3_Witness ==
  \E t \in Threads :
    /\ th[t].pc = "L198r"
    /\ th[t].proxy \in Range(failed_proxies)
    /\ th[t].proxy \notin Range(working_proxies)

\* C4: a call reports success only if one of its attempts got HTTP 200.
\* (The claim as stated; the code breaks it.)
C4_SuccessOnly200 ==
  \A t \in Threads : th[t].result = "success" => th[t].got200


\* C5: a finished call made at most max_retries proxied attempts and at
\* most one direct attempt; after a proxied HTTP 200 it made no further
\* attempt; without a proxied HTTP 200 it made exactly one direct attempt.
\* (The claim as stated; the code breaks it.)
C5_AttemptBudget ==
  \A t \in Threads :
    CallDone(t) =>
      /\ th[t].proxied <= MaxRetries
      /\ th[t].direct <= 1
      /\ th[t].got200p => (~th[t].late /\ th[t].direct = 0)
      /\ ~th[t].got200p => th[t].direct = 1

\* C6: a call during which working_proxies was empty throughout makes no
\* proxied attempt (it never gets past the test of line 146), ends with
\* exactly one direct attempt, and returns a result: nothing but the error
\* of the direct request is raised, and search_web catches that one.
C6_EmptyPoolCall ==
  \A t \in Threads :
    ~th[t].nonempty =>
      /\ InCall(t) =>
           /\ th[t].pc \in {"L176w", "L146", "L147", "L216",
                            "L218r", "L218w", "L221r", "L221w"}
           /\ th[t].proxied = 0
           /\ th[t].direct <= 1
           /\ th[t].attempt < MaxRetries
      /\ CallDone(t) =>
           /\ th[t].proxied = 0
           /\ th[t].direct = 1
           /\ th[t].result \in {"success", "failure"}
           /\ th[t].raised \in {"none", "RequestException"}

\* C6 witness: a call that found the pool empty all along has returned
\* after its direct attempt
C6_Witness ==
  \E t \in Threads :
    /\ CallDone(t)
    /\ ~th[t].nonempty
    /\ working_proxies = <<>>
    /\ failed_proxies # <<>>
    /\ th[t].direct = 1

\* C8: the selector raises neither ZeroDivisionError nor IndexError.
\* (The claim as stated; the code breaks it.)
C8_SelectorNeverRaises ==
  \A t \in Threads : th[t].raised \notin {"ZeroDivisionError", "IndexError"}

\* the counters the dict holds for p (none: no report yet)
PerfTotal(p) == IF HasPerf(p) THEN CurPerf(p).total ELSE 0
PerfSuccess(p) == IF HasPerf(p) THEN CurPerf(p).success ELSE 0

UpdatePcs == {"L159", "L160", "L162r", "L162w", "L164r", "L164w", "L167",
              "L168s", "L168t", "L169", "L170", "L171", "L172"}

\* no outcome report is in progress
NoReportInFlight == \A t \in Threads : th[t].pc \notin UpdatePcs

\* C9: once all the outcome reports begun have completed, the total of a
\* proxy has grown by the number of its reports and its success counter by
\* the number of its successful reports.
\* (The claim as stated; the code breaks it.)
C9_ReportsAdditive ==
  NoReportInFlight =>
    \A p \in Range(free_proxies) :
      /\ PerfTotal(p) = reports[p].base + reports[p].k
      /\ PerfSuccess(p) = reports[p].base + reports[p].s

\* C10: the counters of a proxy never decrease once its record exists, and
\* success <= total always.
\* (The claim as stated; the code breaks it.)
C10_CountersMonotone ==
  /\ [][\A p \in Range(free_proxies) :
          HasPerf(p) => /\ PerfTotal(p)' >= PerfTotal(p)
                        /\ PerfSuccess(p)' >= PerfSuccess(p)]_vars
  /\ [](\A p \in Range(free_proxies) : PerfSuccess(p) <= PerfTotal(p))


\* the picks follow the list round-robin from the cursor of the start
InListOrder(list, h) ==
  \A k \in 1..Len(h.seq) :
    h.seq[k] = list[((h.start + k - 1) % Len(list)) + 1]

\* the members of a list
Members(list) == Range(list)

\* every N consecutive picks hold each of the N members of the list once
EachOncePerRound(list, h) ==
  LET N == Cardinality(Members(list))
  IN  \A j \in 1..Len(h.seq) :
        j + N - 1 <= Len(h.seq) =>
          \A m \in Members(list) :
            Cardinality({k \in j..(j + N - 1) : h.seq[k] = m}) = 1

\* C7 for _get_next_proxy: while working_proxies does not change and the
\* calls do not overlap, the proxies returned follow the list order
\* cyclically from the position of the cursor, and any N consecutive calls
\* return each of the N members exactly once.
C7_ApiRoundRobin ==
  /\ InListOrder(working_proxies, picks)
  /\ EachOncePerRound(working_proxies, picks)

\* C7 for ProxyManager.get_working_proxy, the same statement
C7_PmRoundRobin ==
  /\ InListOrder(pm_working_proxies, pm_picks)
  /\ EachOncePerRound(pm_working_proxies, pm_picks)

\* C7: with a working set of size N >= 1 that is not mutated and selector
\* calls that do not overlap, any N consecutive calls of the selector
\* (_get_next_proxy, and ProxyManager.get_working_proxy) return each member
\* of the working set exactly once, in list order, starting from the
\* position given by the cursor.
C7_RoundRobin == C7_ApiRoundRobin /\ C7_PmRoundRobin

\* no dispatch call is in flight
Quiescent == \A t \in Threads : th[t].pc = "idle"

\* t has made one call, and it was the only call of the process
OnlyCallOf(t) ==
  /\ th[t].calls = 1
  /\ \A u \in Threads \ {t} : th[u].calls = 0

\* C11: every attempt of a dispatch call, proxied or direct, adds one to
\* request_count and one to exactly one of successful_requests and
\* failed_requests: whenever no call is in flight, request_count is the
\* number of attempts made and equals successful_requests + failed_requests.
C11_RequestCounters ==
  Quiescent =>
    /\ request_count = successful_requests + failed_requests
    /\ \A t \in Threads :
         OnlyCallOf(t) => request_count = th[t].proxied + th[t].direct

\* the state the constructor leaves: no call was made
Fresh ==
  /\ request_count = 0
  /\ \A t \in Threads : th[t].pc = "idle" /\ th[t].calls = 0

ProbeSucceeded(p) == reports[p].probe = "ok"
ProbeFailed(p) == reports[p].probe = "failed"

\* the scenario: 3 candidates probing success, failure, failure
C12_Scenario ==
  /\ Len(free_proxies) = 3
  /\ ProbeSucceeded(1) /\ ProbeFailed(2) /\ ProbeFailed(3)

\* C12: after the fast-start pass over a seed list of at most 20
\* candidates, working_proxies holds exactly the candidates whose probe
\* succeeded, in seed order, and failed_proxies exactly those whose probe
\* failed (1 and 2 of them in the scenario); when a single candidate is
\* working, the first dispatch call selects it on every proxied attempt,
\* and makes all its proxied attempts unless one of them gets a 200.
C12_FastStart ==
  Len(free_proxies) <= FastStart =>
    LET succeeded == SelectSeq(free_proxies, ProbeSucceeded)
        failed == SelectSeq(free_proxies, ProbeFailed)
    IN  /\ Fresh =>
             /\ working_proxies = succeeded
             /\ failed_proxies = failed
             /\ C12_Scenario =>
                  Len(working_proxies) = 1 /\ Len(failed_proxies) = 2
        /\ Len(succeeded) = 1 =>
             \A t \in Threads :
               /\ th[t].calls = 0 =>
                    /\ th[t].proxy \in {None, succeeded[1]}
                    /\ \A k \in 1..Len(picks.seq) : picks.seq[k] = succeeded[1]
               /\ (OnlyCallOf(t) /\ CallDone(t) /\ ~th[t].got200p) =>
                    th[t].proxied = MaxRetries

\* C12 witness: in the scenario, the first call has made all its proxied
\* attempts through the single working candidate
C12_Witness ==
  /\ C12_Scenario
  /\ \E t \in Threads :
       OnlyCallOf(t) /\ CallDone(t) /\ th[t].proxied = MaxRetries

\* p is classified failed
InFailed(p) ==
  /\ p \in Range(free_proxies)
  /\ p \in Range(failed_proxies)
  /\ p \notin Range(working_proxies)

\* the daemon thread is probing p (line 91)
Probing(p) == bg.pc = "L91" /\ SweepProxy = p

\* the daemon thread is in its loop
SweepRunning == bg.pc \notin {"done", "dead"}

\* C13: recovery is live: the background sweep keeps running for the
\* lifetime of the process and re-probes every proxy of failed_proxies, so
\* that a failed proxy is always eventually probed again (and moved back to
\* working_proxies once its probe succeeds).
C13_RecoveryLive ==
  /\ []<>SweepRunning
  /\ \A p \in 1..LongSeed : InFailed(p) ~> Probing(p)

\* the candidates beyond the fast-start prefix
BeyondPrefix == (FastStart + 1)..LongSeed

\* C20: every candidate beyond the fast-start prefix of 20 is in
\* working_proxies, unprobed, when the constructor returns, and is
\* eventually probed by the background sweep, which then classifies it by
\* the result of the probe.
C20_BeyondPrefixProbed ==
  \A p \in BeyondPrefix :
    /\ p \in Range(working_proxies) /\ ~HasPerf(p)
    /\ <>Probing(p)

\* the state of the pool and the counters
PoolState ==
  <<free_proxies, working_proxies, failed_proxies, proxy_performance,
    current_proxy_index, request_count, successful_requests, failed_requests>>

\* C14: get_comprehensive_stats is a pure read (its steps leave the lists,
\* the records, the cursor and the request counters unchanged) and it
\* completes without error when it interleaves with dispatch calls that
\* evict proxies, including when working_proxies becomes empty during the
\* call.
C14_StatsPureRead ==
  /\ [][(\E t \in Threads : Stats(t)) => UNCHANGED PoolState]_vars
  /\ [](\A t \in Threads : th[t].snap \in {"none", "ok"})

\* C15: in ProxyManager, get_working_proxy called while working_proxies is
\* empty returns None and leaves the classification of every proxy
\* unchanged (working_proxies stays empty, failed_proxies keeps its
\* members), so that get_working_proxy never hands out a proxy that is in
\* failed_proxies: a proxy marked failed returns only through
\* refresh_proxy_list.
C15_PmEmptySelector ==
  /\ [][(PmGetWorkingProxy /\ pm_working_proxies = <<>>) =>
          /\ pm_ret' = None
          /\ pm_working_proxies' = <<>>
          /\ pm_failed_proxies' = pm_failed_proxies]_vars
  /\ [][PmGetWorkingProxy =>
          (pm_ret' = None \/ pm_ret' \notin Range(pm_failed_proxies))]_vars

\* the classification of the proxies of the ProxyManager
PmClassification ==
  [p \in Range(pm_proxies) |->
     [working |-> p \in Range(pm_working_proxies),
      failed |-> p \in Range(pm_failed_proxies)]]

\* C16: seeding is idempotent: load_free_proxies called again, after any
\* sequence of mark_proxy_failed calls, leaves the candidate list, the size
\* of the pool and the working/failed classification of every proxy
\* unchanged.
C16_PmSeedIdempotent ==
  [][PmLoadFreeProxies =>
       /\ pm_proxies' = pm_proxies
       /\ PmClassification' = PmClassification]_vars

\* the selections the call of t has completed (line 152 executed)
Selections(t) == th[t].proxied + (IF th[t].pc = "L188" THEN 1 ELSE 0)

RECURSIVE SumSelections(_)
SumSelections(n) ==
  IF n = 0 THEN 0 ELSE Selections(n) + SumSelections(n - 1)

\* no thread has begun a second call
FirstCallsOnly ==
  \A t \in Threads :
    th[t].calls = 0 \/ (th[t].calls = 1 /\ th[t].pc = "idle")

\* the cursor never decreases
CursorNeverDecreases == [][current_proxy_index' >= current_proxy_index]_vars

\* the cursor counts the completed selections
CursorCountsSelections ==
  FirstCallsOnly => current_proxy_index = SumSelections(NumThreads)

\* C17: under every interleaving of concurrent dispatch calls the cursor
\* current_proxy_index never decreases, and each selector call that returns
\* a proxy advances it by exactly one, so that c completed selections leave
\* it exactly c higher.
C17_CursorMonotone == CursorNeverDecreases /\ []CursorCountsSelections

\* C18: the callers of search_web and read_url always receive a structured
\* result carrying a success flag, never an exception, whatever the
\* attempts answer and however the call interleaves with other calls and
\* with the sweep: the flag is True when _make_request_with_smart_rotation
\* returned a response and False when it raised, whatever it raised.
C18_StructuredResult ==
  \A t \in Threads :
    CallDone(t) =>
      /\ th[t].result \in {"success", "failure"}
      /\ th[t].result = "success" <=> th[t].raised = "none"

\* C18 witness: a call ended by an exception that is not the failure of
\* the direct attempt has returned its structured failure
C18_Witness ==
  \E t \in Threads :
    /\ CallDone(t)
    /\ th[t].raised \in {"ZeroDivisionError", "IndexError", "ValueError"}
    /\ th[t].result = "failure"

\* C19: a failed proxied attempt never ends a call early: whatever the
\* attempt or its outcome report raises, the call goes on to its remaining
\* proxied attempts and, when none gets a 200, makes the direct attempt;
\* only the failure of the direct attempt leaves
\* _make_request_with_smart_rotation.
C19_FailedAttemptContinues ==
  \A t \in Threads :
    CallDone(t) =>
      /\ th[t].raised \in {"none", "RequestException"}
      /\ th[t].raised = "RequestException" => th[t].direct = 1
      /\ ~th[t].got200p => th[t].direct = 1

\* C21: within one dispatch call, once the selector has returned None the
\* call makes no proxied attempt on a later iteration, even if another
\* thread adds a proxy to working_proxies before the loop ends: a proxied
\* attempt is only ever made when every earlier iteration of the call made
\* one (th[t].attempt counts the earlier iterations, th[t].proxied the
\* proxied attempts among them).
C21_NoAttemptAfterNone ==
  \A t \in Threads :
    th[t].pc = "L188" => th[t].proxied = th[t].attempt

\* no dispatch call and no iteration of the sweep is in flight
NothingInFlight == Quiescent /\ bg.pc \in {"done", "dead", "L101"}

\* every seeded candidate is in one of the lists
AllKnown ==
  \A p \in Range(free_proxies) :
    p \in Range(working_proxies) \/ p \in Range(failed_proxies)

\* C22: every seeded candidate stays known to the pool: once the eviction
\* that removed a proxy from working_proxies is over, the proxy is in
\* failed_proxies, also when two calls report the evicting outcome for it
\* concurrently; whenever no operation is in flight,
\* len(working_proxies) + len(failed_proxies) is the number of seeded
\* candidates.
C22_EvictionConserves ==
  NothingInFlight =>
    /\ AllKnown
    /\ Len(working_proxies) + Len(failed_proxies) = Len(free_proxies)

\* proxy is, or is not, one of the proxies of the set
SelectIn(s, set) == SelectSeq(s, LAMBDA p : p \in set)
SelectOut(s, set) == SelectSeq(s, LAMBDA p : p \notin set)

\* refresh_proxy_list as the claim describes it: each proxy of
\* failed_proxies is probed once (answered is the set of those whose probe
\* succeeded); those move to the end of working_proxies in their order,
\* the others stay
RefreshesAsClaimed ==
  \E answered \in SUBSET Range(pm_failed_proxies) :
    /\ pm_working_proxies' =
         pm_working_proxies \o SelectIn(pm_failed_proxies, answered)
    /\ pm_failed_proxies' = SelectOut(pm_failed_proxies, answered)

\* mark_proxy_failed on a proxy that is not in working_proxies changes
\* nothing
MarkAgainChangesNothing ==
  \A proxy \in Range(pm_proxies) :
    (PmMarkProxyFailed(proxy) /\ proxy \notin Range(pm_working_proxies)) =>
      UNCHANGED <<pm_proxies, pm_working_proxies, pm_failed_proxies,
                  pm_current_index>>

\* C23: refresh_proxy_list probes each proxy of failed_proxies exactly
\* once and moves exactly those whose probe succeeded to the end of
\* working_proxies, in their failed-list order; the others stay in
\* failed_proxies and the proxies already working keep their membership and
\* order; mark_proxy_failed on a proxy not in working_proxies changes
\* nothing.
C23_PmRefresh ==
  /\ [][PmRefreshProxyList => RefreshesAsClaimed]_vars
  /\ [][MarkAgainChangesNothing]_vars

\* the same for the states in which no proxy is twice in failed_proxies
C23_PmRefreshNoDuplicate ==
  /\ [][(PmRefreshProxyList
           /\ \A p \in Range(pm_failed_proxies) :
                Count(pm_failed_proxies, p) = 1) => RefreshesAsClaimed]_vars
  /\ [][MarkAgainChangesNothing]_vars

\* a step of the direct attempt of t (lines 212-223)
DirectAttempt(t) ==
  \/ SendDirect(t)
  \/ DirectSuccessRead(t)
  \/ DirectSuccessWrite(t)
  \/ DirectFailureRead(t)
  \/ DirectFailureWrite(t)

\* the state of the proxies
ProxyState ==
  <<working_proxies, failed_proxies, proxy_performance, current_proxy_index>>

\* C24: the direct attempt of a dispatch call, whatever its outcome,
\* changes no proxy state: none of its steps changes working_proxies,
\* failed_proxies, proxy_performance or the cursor.
C24_DirectFrame ==
  [][(\E t \in Threads : DirectAttempt(t)) => UNCHANGED ProxyState]_vars

\* C24 witness: a call has made its direct attempt in a pool that has a
\* working proxy, a record and an advanced cursor
C24_Witness ==
  /\ \E t \in Threads : CallDone(t) /\ th[t].direct = 1
  /\ working_proxies # <<>>
  /\ \E p \in Range(free_proxies) : HasPerf(p)
  /\ current_proxy_index > 0

====
